---- MODULE Spec2Model ----
(***************************************************************************)
(* Model of loadParallelFileShards (parallel-converters/parallel-shards.cpp): *)
(* nprocs MPI processes convert per-tile edge-list shards into one binary  *)
(* CSR file.  Each process is a sequential program (pc[r]); barriers and   *)
(* collectives are joint steps taken when every process has arrived.       *)
(*                                                                         *)
(* Weights are doubles in the program; the model writes a weight w as the  *)
(* integer 2*w ("halves"), so 1.5 is 3 and 2.0 is 4.                       *)
(***************************************************************************)
EXTENDS Integers, Sequences, FiniteSets, TLC

\* ------------------------------------------------------------------ bounds
MaxProcs == 2
\* stands for INT_MAX, the largest byte count of one MPI_File_write_at call
MaxWriteBytes == 20
\* bounds of the write-loop specification (SpecChunk): payload bytes, bytes
\* per call, first file offset
MaxPayload == 12
MaxChunk == 5
MaxStart == 2
\* bounds of the partition specification (SpecParts)
MaxVertices == 15
MaxParts == 4
\* the longest sequence handed to the local sort (SpecSort)
MaxSortLen == 3

\* ------------------------------------------------------- program constants
SizeofGraphElem == 8
SizeofEdge == 16

ORG_WEIGHT == "ORG_WEIGHT"
ABS_WEIGHT == "ABS_WEIGHT"
NO_WEIGHT == "NO_WEIGHT"
WeightTypes == {ORG_WEIGHT, ABS_WEIGHT, NO_WEIGHT}

\* values the uninitialized locals v0, v1, w of the read loop may hold
GarbageLocals == { [v0 |-> 0, v1 |-> 0, w |-> 0],
                   [v0 |-> -1, v1 |-> 3, w |-> 5],
                   [v0 |-> 3, v1 |-> -1, w |-> 0] }

\* ------------------------------------------------------------------ helpers
Abs(x) == IF x < 0 THEN -x ELSE x
Max2(a, b) == IF a > b THEN a ELSE b

RECURSIVE SumTo(_, _)
\* f[0] + ... + f[n-1]
SumTo(f, n) == IF n <= 0 THEN 0 ELSE f[n - 1] + SumTo(f, n - 1)

RECURSIVE MaxTo(_, _)
\* max(f[0], ..., f[n-1]) for n >= 1
MaxTo(f, n) == IF n <= 1 THEN f[0] ELSE Max2(f[n - 1], MaxTo(f, n - 1))

RECURSIVE Concat(_, _)
\* f[0] \o ... \o f[n-1]
Concat(f, n) == IF n <= 0 THEN <<>> ELSE Concat(f, n - 1) \o f[n - 1]

\* ----------------------------------------------------- binary representation
Pow2(n) == IF n = 0 THEN 1 ELSE IF n = 1 THEN 2 ELSE IF n = 2 THEN 4
           ELSE IF n = 3 THEN 8 ELSE 16

\* byte k (0 = least significant) of a natural number below 65536
NatByte(n, k) == IF k = 0 THEN n % 256 ELSE IF k = 1 THEN (n \div 256) % 256 ELSE 0

\* byte k of the 8-byte little-endian two's-complement GraphElem v, |v| < 65536
ByteOfElem(v, k) == IF v >= 0 THEN NatByte(v, k) ELSE 255 - NatByte(-v - 1, k)

\* floor(log2(m)) for 1 <= m < 32
Log2(m) == IF m >= 16 THEN 4 ELSE IF m >= 8 THEN 3 ELSE IF m >= 4 THEN 2
           ELSE IF m >= 2 THEN 1 ELSE 0

\* byte k of the IEEE-754 double h/2, |h| < 32: sign, 11-bit biased exponent,
\* and the top four mantissa bits (the other mantissa bits are zero)
ByteOfWeight(h, k) ==
    IF h = 0 \/ k < 6 THEN 0
    ELSE LET m == Abs(h)
             e == Log2(m)
             E == 1022 + e
             top4 == ((m - Pow2(e)) * 16) \div Pow2(e)
         IN IF k = 7 THEN (IF h < 0 THEN 128 ELSE 0) + (E \div 16)
            ELSE (E % 16) * 16 + top4

\* the GraphElem whose bytes are b[0..7] (two low bytes and the sign)
ElemOfBytes(b) == IF b[7] >= 128 THEN -(1 + (255 - b[0]) + 256 * (255 - b[1]))
                  ELSE b[0] + 256 * b[1]

\* the double (in halves) whose bytes are b[0..7]
WeightOfBytes(b) ==
    IF b[7] % 128 = 0 /\ b[6] = 0 THEN 0
    ELSE LET E == (b[7] % 128) * 16 + (b[6] \div 16)
             e == E - 1022
             m == Pow2(e) + ((b[6] % 16) * Pow2(e)) \div 16
         IN IF b[7] >= 128 THEN -m ELSE m

\* the bytes of a vector<GraphElem> held as a function on 0..n-1
ElemBytes(vec, n) ==
    [p \in 0..(n * SizeofGraphElem - 1) |->
        ByteOfElem(vec[p \div SizeofGraphElem], p % SizeofGraphElem)]

\* the bytes of a vector<Edge> (a sequence of [tail_, weight_])
EdgeBytes(vec) ==
    [p \in 0..(Len(vec) * SizeofEdge - 1) |->
        LET e == vec[(p \div SizeofEdge) + 1]
            q == p % SizeofEdge
        IN IF q < SizeofGraphElem THEN ByteOfElem(e.tail_, q)
           ELSE ByteOfWeight(e.weight_, q - SizeofGraphElem)]

\* Edge::Edge(): the value of a default-constructed Edge
DefaultEdge == [tail_ |-> -1, weight_ |-> 0]

\* ------------------------------------------------------------ shard files
\* A shard file is [records, trailingNewline]: its record lines, each a
\* sequence of numeric fields, and whether the text ends in a newline.
\* The lines std::getline returns until eof: an empty text is one empty
\* line, and a trailing newline leaves one more empty line.
SplitLines(f) ==
    (IF f.records = <<>> THEN << <<>> >> ELSE f.records)
        \o (IF f.trailingNewline THEN << <<>> >> ELSE <<>>)

\* iss >> v0 >> ch >> v1 >> ch >> info [>> ch >> w] on a fresh stream:
\* a variable whose field is missing keeps the value it had
ReadFields(line, nfields, vars) ==
    [v0 |-> IF Len(line) >= 1 THEN line[1] ELSE vars.v0,
     v1 |-> IF Len(line) >= 2 THEN line[2] ELSE vars.v1,
     w  |-> IF nfields >= 4 /\ Len(line) >= 4 THEN line[4] ELSE vars.w]

\* iss >> v0 >> ... on the stream after 4 fields were read from it: at end of
\* line the stream is at eof and nothing is stored; otherwise the next
\* character is a delimiter, the extraction of v0 fails and stores 0
ReReadFields(line, vars) ==
    IF Len(line) > 4 THEN [vars EXCEPT !.v0 = 0] ELSE vars

\* lines 152-159: the locals after the reads of one line; g holds the
\* indeterminate values of the uninitialized locals
ParseLine(line, wt, g) ==
    LET first == IF wt = ORG_WEIGHT THEN ReadFields(line, 4, g) ELSE g
    IN IF wt = ABS_WEIGHT
       THEN LET r == ReadFields(line, 4, first) IN [r EXCEPT !.w = Abs(r.w)]
       ELSE IF wt = ORG_WEIGHT THEN ReReadFields(line, first)
       ELSE ReadFields(line, 3, first)

\* lines 161-170: the tuple pushed for one line
Normalize(p, oneBased, v_lo, v_hi) ==
    LET d == IF oneBased THEN 1 ELSE 0
    IN [i_ |-> p.v0 - d + v_lo, j_ |-> p.v1 - d + v_hi, w_ |-> p.w]

\* -------------------------------------------------------- shard discovery
\* the loops of ci and cj exchanged
CandidateTileColumnMajor(k, start, end) ==
    LET n == end - start + 1 IN <<start + (k % n), start + (k \div n)>>

\* the tile of the k-th candidate (k = 0, 1, ...) of the row-major double loop
CandidateTile(k, start, end) ==
    LET n == end - start + 1 IN <<start + (k \div n), start + (k % n)>>

RECURSIVE DiscoverFrom(_, _, _, _)
\* lines 93-115: the files that exist, in enumeration order; the file at
\* position p of the result (p = 1, 2, ...) is given process p - 1
DiscoverFrom(k, start, end, files) ==
    LET n == end - start + 1
    IN IF k >= n * n THEN <<>>
       ELSE LET t == CandidateTile(k, start, end)
                rest == DiscoverFrom(k + 1, start, end, files)
            IN IF t \in DOMAIN files THEN <<t>> \o rest ELSE rest

Discover(start, end, files) == DiscoverFrom(0, start, end, files)

\* fileProc.find(rank) != fileProc.end()
HasShard(fp, rank) == rank + 1 <= Len(fp)

\* lines 126-132: the row/column offsets parsed from the file name
ShardLo(tile, sc) == (tile[1] - 1) * sc
ShardHi(tile, sc) == (tile[2] - 1) * sc

\* ------------------------------------------------------------ partitioning
\* the quotient taken before the product
PartsOfDivFirst(gnv, np) == [i \in 0..np |-> IF i = 0 THEN 0 ELSE (gnv \div np) * i]

\* lines 207-211
PartsOf(gnv, np) == [i \in 0..np |-> IF i = 0 THEN 0 ELSE (gnv * i) \div np]

RECURSIVE UpperBoundFrom(_, _, _, _)
\* std::upper_bound over parts[first .. first+len): binary search for the
\* first position whose value is greater than v
UpperBoundFrom(parts, v, first, len) ==
    IF len <= 0 THEN first
    ELSE LET half == len \div 2
             mid == first + half
         IN IF ~(v < parts[mid])
            THEN UpperBoundFrom(parts, v, mid + 1, len - half - 1)
            ELSE UpperBoundFrom(parts, v, first, half)

\* lines 245-246
OwnerOf(parts, np, v) == UpperBoundFrom(parts, v, 0, np + 1) - 1

\* -------------------------------------------------------------- bucketing
\* edgeCount[vertex+1]++ (lines 247, 257); an index outside the vector is
\* undefined behaviour, recorded in oob
CountVertex(st, gnv, vertex) ==
    IF vertex + 1 >= 0 /\ vertex + 1 <= gnv
    THEN [st EXCEPT !.cnt[vertex + 1] = @ + 1]
    ELSE [st EXCEPT !.oob = TRUE]

\* outEdges[owner].emplace_back(e) (lines 249, 259); an owner outside
\* 0..np-1 is undefined behaviour: the tuple reaches no bucket
PushEdge(st, np, owner, e) ==
    IF owner >= 0 /\ owner < np
    THEN [st EXCEPT !.out[owner] = Append(@, e)]
    ELSE [st EXCEPT !.oob = TRUE]

\* one iteration of the loop of lines 241-260
BucketEdge(st, parts, np, gnv, e) ==
    LET s1 == CountVertex(st, gnv, e.i_)
        s2 == PushEdge(s1, np, OwnerOf(parts, np, e.i_), e)
        s3 == CountVertex(s2, gnv, e.j_)
    IN PushEdge(s3, np, OwnerOf(parts, np, e.j_),
                [i_ |-> e.j_, j_ |-> e.i_, w_ |-> e.w_])

RECURSIVE BucketFrom(_, _, _, _, _, _, _)
BucketFrom(st, parts, np, gnv, edges, i, n) ==
    IF i >= n THEN st
    ELSE BucketFrom(BucketEdge(st, parts, np, gnv, edges[i + 1]),
                    parts, np, gnv, edges, i + 1, n)

\* lines 215-216 and 241-260: the loop runs numEdges/2 times
BucketAll(parts, np, gnv, edges, numEdges) ==
    BucketFrom([cnt |-> [v \in 0..gnv |-> 0],
                out |-> [p \in 0..(np - 1) |-> <<>>],
                oob |-> FALSE],
               parts, np, gnv, edges, 0, numEdges \div 2)

\* ---------------------------------------------------------------- sorting
\* lines 322-323
ecmp(e0, e1) == (e0.i_ < e1.i_) \/ ((e0.i_ = e1.i_) /\ (e0.j_ < e1.j_))

\* std::is_sorted(first, last, ecmp)
IsSorted(s) == \A k \in 1..(Len(s) - 1) : ~ecmp(s[k + 1], s[k])

RemoveAt(s, k) == SubSeq(s, 1, k - 1) \o SubSeq(s, k + 1, Len(s))

RECURSIVE SortedArrangements(_)
\* the results std::sort(first, last, ecmp) may leave: every ordering of
\* the elements that is sorted under ecmp (std::sort is not stable)
SortedArrangements(s) ==
    IF s = <<>> THEN {<<>>}
    ELSE UNION { { <<s[k]>> \o t : t \in SortedArrangements(RemoveAt(s, k)) } :
                 k \in {k \in 1..Len(s) : \A m \in 1..Len(s) : ~ecmp(s[m], s[k])} }

\* lines 325-330
SortResults(s) == IF IsSorted(s) THEN {s} ELSE SortedArrangements(s)

\* -------------------------------------------------------------- write loop
\* the whole payload handed to one call, whatever its size
WriteBeginSingleCall(tot, off, max) ==
    [tot_bytes |-> tot, offset |-> off, transf_bytes |-> 0,
     chunk_bytes |-> tot, chunked |-> FALSE, active |-> TRUE]

\* lines 363-367 and 404-409: the state of a transfer of tot bytes to file
\* offset off when one call moves at most max bytes
WriteBegin(tot, off, max) ==
    [tot_bytes |-> tot, offset |-> off, transf_bytes |-> 0,
     chunk_bytes |-> IF tot < max THEN tot ELSE max,
     chunked |-> ~(tot < max), active |-> TRUE]

\* the MPI_File_write_at call the transfer issues next: file offset, position
\* in the buffer and byte count (lines 364, 372, 405, 413)
WriteCall(ws) ==
    [offset |-> ws.offset, ptr |-> ws.transf_bytes, count |-> ws.chunk_bytes]

\* the file offset not advanced after a chunk
WriteAdvanceSameOffset(ws, max) ==
    IF ~ws.chunked THEN [ws EXCEPT !.active = FALSE]
    ELSE LET transf == ws.transf_bytes + ws.chunk_bytes
             chunk == IF ws.tot_bytes - transf < max
                      THEN ws.tot_bytes - transf ELSE ws.chunk_bytes
         IN [ws EXCEPT !.transf_bytes = transf,
                       !.chunk_bytes = chunk,
                       !.active = transf < ws.tot_bytes]

\* the transfer after that call (lines 373-378 and 414-419, with the loop
\* test of lines 370 and 411)
WriteAdvance(ws, max) ==
    IF ~ws.chunked THEN [ws EXCEPT !.active = FALSE]
    ELSE LET transf == ws.transf_bytes + ws.chunk_bytes
             chunk == IF ws.tot_bytes - transf < max
                      THEN ws.tot_bytes - transf ELSE ws.chunk_bytes
         IN [ws EXCEPT !.transf_bytes = transf,
                       !.offset = ws.offset + ws.chunk_bytes,
                       !.chunk_bytes = chunk,
                       !.active = transf < ws.tot_bytes]

\* MPI_File_write_at(fh, offset, buf + ptr, count, MPI_BYTE): the file after
\* the call; a file is a function from the byte positions written so far
FileWrite(file, call, buf) ==
    LET rng == call.offset..(call.offset + call.count - 1)
    IN [p \in (DOMAIN file) \cup rng |->
            IF p \in rng THEN buf[call.ptr + (p - call.offset)] ELSE file[p]]

EmptyFile == [p \in {} |-> 0]

\* ------------------------------------------------------------ CSR offsets
RECURSIVE PrefixFrom(_, _, _)
\* lines 315-316: for (i = 1; i < globalNumVertices; i++) edgeCount[i] += edgeCount[i-1]
PrefixFrom(cnt, i, gnv) ==
    IF i >= gnv THEN cnt
    ELSE PrefixFrom([cnt EXCEPT ![i] = @ + cnt[i - 1]], i + 1, gnv)

PrefixSum(cnt, gnv) == PrefixFrom(cnt, 1, gnv)

\* line 308: the root's edgeCount after MPI_Reduce over `count` entries
ReduceAtRoot(cnts, np, count, size) ==
    [v \in 0..(size - 1) |->
        IF v < count THEN SumTo([p \in 0..(np - 1) |-> cnts[p][v]], np)
        ELSE cnts[0][v]]

\* lines 390-394: numEdges value-initialized elements, then the real ones
BuildCsrCols(rredata, numEdges) ==
    [k \in 1..numEdges |-> DefaultEdge]
        \o [k \in 1..numEdges |-> [tail_ |-> rredata[k].j_, weight_ |-> rredata[k].w_]]

\* an inclusive scan in place of the exclusive one
ExscanAtInclusive(vals, rank) == SumTo(vals, rank + 1)

\* line 397: MPI_Exscan with MPI_SUM; rank 0 keeps its initial value 0
ExscanAt(vals, rank) == IF rank = 0 THEN 0 ELSE SumTo(vals, rank)

\* the edge index scaled by the size of an integer, not of an edge record
EdgeFileOffsetPerElem(gnv, e_offset) ==
    2 * SizeofGraphElem + (gnv + 1) * SizeofGraphElem + e_offset * SizeofGraphElem

\* line 402
EdgeFileOffset(gnv, e_offset) ==
    2 * SizeofGraphElem + (gnv + 1) * SizeofGraphElem + e_offset * SizeofEdge

\* line 360
OffsetTableBytes(gnv) == gnv * SizeofGraphElem

INT_MAX == MaxWriteBytes

\* ------------------------------------------------------------------ inputs
\* "0,1,3,2.0" and "1,0,3,2.0"
FileSym == [records |-> << <<0, 1, 3, 4>>, <<1, 0, 3, 4>> >>, trailingNewline |-> FALSE]
\* "0,1,1,1.5"
FileA == [records |-> << <<0, 1, 1, 3>> >>, trailingNewline |-> FALSE]
\* "0,1,1,3.0"
FileB == [records |-> << <<0, 1, 1, 6>> >>, trailingNewline |-> FALSE]
\* "1,2,1,1.0"
FileOne == [records |-> << <<1, 2, 1, 2>> >>, trailingNewline |-> FALSE]
\* "1,2,1,-2.0" and a final newline
FileNl == [records |-> << <<1, 2, 1, -4>> >>, trailingNewline |-> TRUE]
\* "1,0,1,3.0" and "0,1,1,1.5"
FileTies == [records |-> << <<1, 0, 1, 6>>, <<0, 1, 1, 3>> >>, trailingNewline |-> FALSE]
\* a file of no bytes
FileEmpty == [records |-> <<>>, trailingNewline |-> FALSE]
\* "1,0,1,1.5,7": a line with a fifth column
FileFive == [records |-> << <<1, 0, 1, 3, 7>> >>, trailingNewline |-> FALSE]

ShardFiles == {FileSym, FileA, FileOne, FileNl, FileTies, FileEmpty, FileFive}
ShardCounts == {2, 4}

Tiles(start, end) == (start..end) \X (start..end)

\* directories of two shards
TwoShardDirs ==
    { [t \in {<<1, 1>>, <<2, 2>>} |-> IF t = <<1, 1>> THEN FileA ELSE FileB],
      [t \in {<<1, 1>>, <<1, 2>>} |-> IF t = <<1, 1>> THEN FileSym ELSE FileNl],
      [t \in {<<1, 2>>, <<2, 1>>} |-> IF t = <<1, 2>> THEN FileTies ELSE FileA],
      [t \in {<<1, 2>>, <<2, 2>>} |-> IF t = <<1, 2>> THEN FileEmpty ELSE FileSym] }

\* the directories the run may find: no shard, one shard of the tile
\* range, or one of TwoShardDirs that lies in the tile range
FileSystems(start, end) ==
    UNION { [T -> ShardFiles] :
            T \in {T \in SUBSET Tiles(start, end) : Cardinality(T) <= 1} }
    \cup {d \in TwoShardDirs : DOMAIN d \subseteq Tiles(start, end)}

\* ------------------------------------------------------------------- state
VARIABLES
    nprocs, indexOneBased, wtype, shardCount, fileStartIndex, fileEndIndex,
    fs,         \* the input directory: tile -> shard file, for the files that exist
    pc,         \* rank -> position in loadParallelFileShards
    loc,        \* rank -> the locals of loadParallelFileShards
    fh,         \* the output file handle: "closed", "open", "error"
    outFile,    \* the output file: byte position -> byte
    writeLog,   \* every MPI_File_write_at call made: [rank, offset, count, part]
    bt          \* the write loop run on its own (SpecChunk, SpecParts)

vars == <<nprocs, indexOneBased, wtype, shardCount, fileStartIndex, fileEndIndex,
          fs, pc, loc, fh, outFile, writeLog, bt>>
inputs == <<nprocs, indexOneBased, wtype, shardCount, fileStartIndex, fileEndIndex, fs>>

Ranks == 0..(nprocs - 1)

NoTransfer == [tot_bytes |-> 0, offset |-> 0, transf_bytes |-> 0,
               chunk_bytes |-> 0, chunked |-> FALSE, active |-> FALSE]

\* lines 83-90 and the declarations further down: the locals at entry
InitLocals(np) ==
    [fileProc |-> <<>>, v_lo |-> -1, v_hi |-> -1, lineNo |-> 0,
     edgeList |-> <<>>, numEdges |-> 0, numVertices |-> 0,
     globalNumVertices |-> 0, globalNumEdges |-> 0,
     parts |-> [i \in 0..np |-> 0],
     edgeCount |-> [v \in 0..0 |-> 0],
     outEdges |-> [p \in 0..(np - 1) |-> <<>>],
     ssize |-> [p \in 0..(np - 1) |-> 0],
     sdispls |-> [p \in 0..(np - 1) |-> 0],
     sredata |-> <<>>,
     rsize |-> [p \in 0..(np - 1) |-> 0],
     rredata |-> <<>>,
     csrCols |-> <<>>, e_offset |-> 0,
     ws |-> NoTransfer]

BtIdle == [on |-> FALSE]

Init ==
    /\ nprocs \in 1..MaxProcs
    /\ indexOneBased \in BOOLEAN
    /\ wtype \in WeightTypes
    /\ shardCount \in ShardCounts
    /\ fileStartIndex = 1
    /\ fileEndIndex \in {1, 2}
    /\ fs \in FileSystems(fileStartIndex, fileEndIndex)
    /\ pc = [r \in Ranks |-> "discover"]
    /\ loc = [r \in Ranks |-> InitLocals(nprocs)]
    /\ fh = "closed"
    /\ outFile = EmptyFile
    /\ writeLog = {}
    /\ bt = BtIdle

Shared == <<fh, outFile, writeLog, bt>>

\* ------------------------------------------------------------- local steps
\* lines 92-115
DiscoverShards(r) ==
    /\ pc[r] = "discover"
    /\ loc' = [loc EXCEPT ![r].fileProc = Discover(fileStartIndex, fileEndIndex, fs)]
    /\ pc' = [pc EXCEPT ![r] = "barrier117"]
    /\ UNCHANGED <<inputs, Shared>>

\* lines 119-140, and 182 for a process without a shard
OpenShard(r) ==
    /\ pc[r] = "open"
    /\ IF HasShard(loc[r].fileProc, r)
       THEN LET tile == loc[r].fileProc[r + 1]
            IN /\ loc' = [loc EXCEPT ![r].v_lo = ShardLo(tile, shardCount),
                                     ![r].v_hi = ShardHi(tile, shardCount),
                                     ![r].lineNo = 0]
               /\ pc' = [pc EXCEPT ![r] = "read"]
       ELSE /\ loc' = [loc EXCEPT ![r].numEdges = Len(loc[r].edgeList) * 2]
            /\ pc' = [pc EXCEPT ![r] = "barrier185"]
    /\ UNCHANGED <<inputs, Shared>>

\* lines 142-176: one iteration of while(!ifs.eof()); after the last line
\* of the file, lines 178-182
ReadLine(r) ==
    /\ pc[r] = "read"
    /\ LET lines == SplitLines(fs[loc[r].fileProc[r + 1]])
           n == loc[r].lineNo + 1
       IN \E g \in GarbageLocals :
            LET e == Normalize(ParseLine(lines[n], wtype, g), indexOneBased,
                               loc[r].v_lo, loc[r].v_hi)
                el == Append(loc[r].edgeList, e)
                eof == n >= Len(lines)
            IN /\ loc' = [loc EXCEPT
                    ![r].lineNo = n,
                    ![r].edgeList = el,
                    ![r].numVertices = Max2(Max2(@, e.i_), e.j_),
                    ![r].numEdges = IF eof THEN Len(el) * 2 ELSE @]
               /\ pc' = [pc EXCEPT ![r] = IF eof THEN "barrier185" ELSE "read"]
    /\ UNCHANGED <<inputs, Shared>>

\* lines 207-265: the partition table, then the buckets.
\* An access outside edgeCount or outEdges is undefined behaviour: the
\* process dies, or the access is lost and the process goes on.
PartitionAndBucket(r) ==
    /\ pc[r] = "partition"
    /\ LET gnv == loc[r].globalNumVertices
           parts == PartsOf(gnv, nprocs)
           st == BucketAll(parts, nprocs, gnv, loc[r].edgeList, loc[r].numEdges)
       IN /\ loc' = [loc EXCEPT ![r].parts = parts,
                                ![r].edgeCount = st.cnt,
                                ![r].outEdges = st.out,
                                ![r].edgeList = <<>>]
          /\ \/ pc' = [pc EXCEPT ![r] = "barrier267"]
             \/ /\ st.oob
                /\ pc' = [pc EXCEPT ![r] = "crashed"]
    /\ UNCHANGED <<inputs, Shared>>

\* lines 270-289
Pack(r) ==
    /\ pc[r] = "pack"
    /\ LET out == loc[r].outEdges
           size == [p \in Ranks |-> Len(out[p])]
       IN loc' = [loc EXCEPT
               ![r].ssize = size,
               ![r].sdispls = [p \in Ranks |-> SumTo(size, p)],
               ![r].sredata = Concat(out, nprocs),
               ![r].outEdges = [p \in Ranks |-> <<>>]]
    /\ pc' = [pc EXCEPT ![r] = "alltoall"]
    /\ UNCHANGED <<inputs, Shared>>

\* lines 311-317, at rank 0
PrefixCounts(r) ==
    /\ pc[r] = "prefix"
    /\ loc' = [loc EXCEPT ![r].edgeCount = PrefixSum(@, loc[r].globalNumVertices)]
    /\ pc' = [pc EXCEPT ![r] = "barrier319"]
    /\ UNCHANGED <<inputs, Shared>>

\* lines 321-335
LocalSort(r) ==
    /\ pc[r] = "sort"
    /\ \E s \in SortResults(loc[r].rredata) :
          loc' = [loc EXCEPT ![r].rredata = s]
    /\ pc' = [pc EXCEPT ![r] = "barrier337"]
    /\ UNCHANGED <<inputs, Shared>>

LogEntry(r, call, part) ==
    [rank |-> r, offset |-> call.offset, count |-> call.count, part |-> part]

\* lines 353-367, at rank 0: the two header words, then the start of the
\* transfer of the offset table
WriteHeader(r) ==
    /\ pc[r] = "header"
    /\ LET gnv == loc[r].globalNumVertices
           c1 == [offset |-> 0, ptr |-> 0, count |-> SizeofGraphElem]
           c2 == [offset |-> SizeofGraphElem, ptr |-> 0, count |-> SizeofGraphElem]
           f1 == FileWrite(outFile, c1, ElemBytes([k \in 0..0 |-> gnv], 1))
       IN /\ outFile' = FileWrite(f1, c2,
                            ElemBytes([k \in 0..0 |-> loc[r].globalNumEdges], 1))
          /\ writeLog' = writeLog \cup {LogEntry(r, c1, "header"), LogEntry(r, c2, "header")}
          /\ loc' = [loc EXCEPT ![r].ws =
                        WriteBegin(OffsetTableBytes(gnv), 2 * SizeofGraphElem, INT_MAX)]
    /\ pc' = [pc EXCEPT ![r] = "owrite"]
    /\ UNCHANGED <<inputs, fh, bt>>

\* lines 363-380: one MPI_File_write_at call of the offset table
WriteOffsets(r) ==
    /\ pc[r] = "owrite"
    /\ LET call == WriteCall(loc[r].ws)
           next == WriteAdvance(loc[r].ws, INT_MAX)
       IN /\ outFile' = FileWrite(outFile, call,
                            ElemBytes(loc[r].edgeCount, loc[r].globalNumVertices + 1))
          /\ writeLog' = writeLog \cup {LogEntry(r, call, "offsets")}
          /\ loc' = [loc EXCEPT ![r].ws = next]
          /\ pc' = [pc EXCEPT ![r] = IF next.active THEN "owrite" ELSE "barrier383"]
    /\ UNCHANGED <<inputs, fh, bt>>

\* lines 389-394
BuildCsr(r) ==
    /\ pc[r] = "csr"
    /\ loc' = [loc EXCEPT ![r].csrCols = BuildCsrCols(loc[r].rredata, loc[r].numEdges)]
    /\ pc' = [pc EXCEPT ![r] = "exscan"]
    /\ UNCHANGED <<inputs, Shared>>

\* lines 402-409 (with tot_bytes of line 389)
BeginEdgeWrite(r) ==
    /\ pc[r] = "ewrite_begin"
    /\ loc' = [loc EXCEPT ![r].ws =
                  WriteBegin(loc[r].numEdges * SizeofEdge,
                             EdgeFileOffset(loc[r].globalNumVertices, loc[r].e_offset),
                             INT_MAX)]
    /\ pc' = [pc EXCEPT ![r] = "ewrite"]
    /\ UNCHANGED <<inputs, Shared>>

\* lines 404-421: one MPI_File_write_at call of the edge records
WriteEdges(r) ==
    /\ pc[r] = "ewrite"
    /\ LET call == WriteCall(loc[r].ws)
           next == WriteAdvance(loc[r].ws, INT_MAX)
       IN /\ outFile' = FileWrite(outFile, call, EdgeBytes(loc[r].csrCols))
          /\ writeLog' = writeLog \cup {LogEntry(r, call, "edges")}
          /\ loc' = [loc EXCEPT ![r].ws = next]
          /\ pc' = [pc EXCEPT ![r] = IF next.active THEN "ewrite" ELSE "barrier423"]
    /\ UNCHANGED <<inputs, fh, bt>>

\* -------------------------------------------------------------- collectives
AllAt(p) == \A r \in Ranks : pc[r] = p

Barriers == {"barrier117", "barrier185", "barrier267", "barrier319",
             "barrier337", "barrier383", "barrier399", "barrier423"}

AfterBarrier(b) ==
    CASE b = "barrier117" -> "open"
      [] b = "barrier185" -> "allreduce"
      [] b = "barrier267" -> "pack"
      [] b = "barrier319" -> "sort"
      [] b = "barrier337" -> "fopen"
      [] b = "barrier383" -> "csr"
      [] b = "barrier399" -> "ewrite_begin"
      [] b = "barrier423" -> "fclose"

\* MPI_Barrier (lines 117, 185, 267, 319, 337, 383, 399, 423): no process
\* leaves before every process has arrived
Barrier(b) ==
    /\ AllAt(b)
    /\ pc' = [r \in Ranks |-> AfterBarrier(b)]
    /\ UNCHANGED <<inputs, loc, Shared>>

\* lines 200-201
VertexCount(maxId, oneBased) == IF ~oneBased THEN maxId + 1 ELSE maxId

\* lines 197-201: the two MPI_Allreduce calls and the index-base adjustment
Allreduce ==
    /\ AllAt("allreduce")
    /\ LET gne == SumTo([p \in Ranks |-> loc[p].numEdges], nprocs)
           gnv == VertexCount(MaxTo([p \in Ranks |-> loc[p].numVertices], nprocs),
                              indexOneBased)
       IN loc' = [r \in Ranks |-> [loc[r] EXCEPT !.globalNumEdges = gne,
                                                 !.globalNumVertices = gnv]]
    /\ pc' = [r \in Ranks |-> "partition"]
    /\ UNCHANGED <<inputs, Shared>>

\* line 291
Alltoall ==
    /\ AllAt("alltoall")
    /\ loc' = [r \in Ranks |->
                 [loc[r] EXCEPT !.rsize = [p \in Ranks |-> loc[p].ssize[r]]]]
    /\ pc' = [r \in Ranks |-> "alltoallv"]
    /\ UNCHANGED <<inputs, Shared>>

\* what rank r receives from rank p: rsize[p] tuples from p's send block for r
RecvBlock(r, p) ==
    SubSeq(loc[p].sredata, loc[p].sdispls[r] + 1, loc[p].sdispls[r] + loc[r].rsize[p])

\* lines 293-305
Alltoallv ==
    /\ AllAt("alltoallv")
    /\ loc' = [r \in Ranks |->
                 LET rre == Concat([p \in Ranks |-> RecvBlock(r, p)], nprocs)
                 IN [loc[r] EXCEPT !.rredata = rre, !.numEdges = Len(rre)]]
    /\ pc' = [r \in Ranks |-> "reduce"]
    /\ UNCHANGED <<inputs, Shared>>

\* lines 308-309: MPI_Reduce(MPI_IN_PLACE, edgeCount, globalNumVertices, ...).
\* MPI_IN_PLACE as the send buffer of a process other than the root is
\* erroneous: the library aborts the job when the count is positive
\* (ReduceAbort) or takes that process's edgeCount as its contribution.
Reduce ==
    /\ AllAt("reduce")
    /\ loc' = [loc EXCEPT ![0].edgeCount =
                  ReduceAtRoot([p \in Ranks |-> loc[p].edgeCount], nprocs,
                               loc[0].globalNumVertices,
                               loc[0].globalNumVertices + 1)]
    /\ pc' = [r \in Ranks |-> IF r = 0 THEN "prefix" ELSE "barrier319"]
    /\ UNCHANGED <<inputs, Shared>>

ReduceAbort ==
    /\ AllAt("reduce")
    /\ nprocs > 1
    /\ loc[0].globalNumVertices > 0
    /\ pc' = [r \in Ranks |-> "aborted"]
    /\ UNCHANGED <<inputs, loc, Shared>>

\* lines 340-341
FileOpen ==
    /\ AllAt("fopen")
    /\ fh' = "open"
    /\ pc' = [r \in Ranks |-> IF r = 0 THEN "header" ELSE "barrier383"]
    /\ UNCHANGED <<inputs, loc, outFile, writeLog, bt>>

\* lines 343-346: the file cannot be opened
FileOpenError ==
    /\ AllAt("fopen")
    /\ fh' = "error"
    /\ pc' = [r \in Ranks |-> "aborted"]
    /\ UNCHANGED <<inputs, loc, outFile, writeLog, bt>>

\* line 397
Exscan ==
    /\ AllAt("exscan")
    /\ loc' = [r \in Ranks |->
                 [loc[r] EXCEPT !.e_offset =
                     ExscanAt([p \in Ranks |-> loc[p].numEdges], r)]]
    /\ pc' = [r \in Ranks |-> "barrier399"]
    /\ UNCHANGED <<inputs, Shared>>

\* line 425
FileClose ==
    /\ AllAt("fclose")
    /\ fh' = "closed"
    /\ pc' = [r \in Ranks |-> "done"]
    /\ UNCHANGED <<inputs, loc, outFile, writeLog, bt>>

Next ==
    \/ \E r \in Ranks : DiscoverShards(r)
    \/ \E r \in Ranks : OpenShard(r)
    \/ \E r \in Ranks : ReadLine(r)
    \/ \E r \in Ranks : PartitionAndBucket(r)
    \/ \E r \in Ranks : Pack(r)
    \/ \E r \in Ranks : PrefixCounts(r)
    \/ \E r \in Ranks : LocalSort(r)
    \/ \E r \in Ranks : WriteHeader(r)
    \/ \E r \in Ranks : WriteOffsets(r)
    \/ \E r \in Ranks : BuildCsr(r)
    \/ \E r \in Ranks : BeginEdgeWrite(r)
    \/ \E r \in Ranks : WriteEdges(r)
    \/ \E b \in Barriers : Barrier(b)
    \/ Allreduce
    \/ Alltoall
    \/ Alltoallv
    \/ Reduce
    \/ ReduceAbort
    \/ FileOpen
    \/ FileOpenError
    \/ Exscan
    \/ FileClose

Spec == Init /\ [][Next]_vars

\* an MPI process runs until it finishes or blocks in a collective, and a
\* collective completes once every process has entered it
SpecFair == Spec /\ WF_vars(Next)

\* ------------------------------------------------- what the inputs describe
RECURSIVE RecordCount(_)
\* the raw records of the shard files in S
RecordCount(S) ==
    IF S = {} THEN 0
    ELSE LET t == CHOOSE t \in S : TRUE
         IN Len(fs[t].records) + RecordCount(S \ {t})

TotalRecords == RecordCount(DOMAIN fs)

ReceivedTotal == SumTo([r \in Ranks |-> Len(loc[r].rredata)], nprocs)

SeqRange(s) == {s[k] : k \in 1..Len(s)}

\* the number of positions of s that satisfy Test
CountIn(s, Test(_)) == Cardinality({k \in 1..Len(s) : Test(s[k])})

Done == AllAt("done")

\* C1: globalEdgeCount is twice the number of raw records of all shards, and
\* after the exchange the processes together hold exactly globalEdgeCount
\* directed edges.
C1_EdgeCountConserved ==
    /\ \A r \in Ranks :
          pc[r] = "partition" => loc[r].globalNumEdges = 2 * TotalRecords
    /\ AllAt("reduce") => ReceivedTotal = loc[0].globalNumEdges

\* the degree of vertex v: the directed edges with source v over all processes
Degree(v) ==
    SumTo([r \in Ranks |-> CountIn(loc[r].rredata, LAMBDA e : e.i_ = v)], nprocs)

\* C2: the coordinator's offset table has globalVertexCount+1 entries, starts
\* at 0, ends at globalEdgeCount, is monotone and steps by the degrees.
C2_OffsetTable ==
    Done =>
        LET off == loc[0].edgeCount
            gnv == loc[0].globalNumVertices
        IN /\ DOMAIN off = 0..gnv
           /\ off[0] = 0
           /\ off[gnv] = loc[0].globalNumEdges
           /\ \A v \in 1..gnv : /\ off[v - 1] <= off[v]
                                /\ off[v] = off[v - 1] + Degree(v - 1)

\* ------------------------------------------------------ reading the file
HasBytes(pos, n) == \A p \in pos..(pos + n - 1) : p \in DOMAIN outFile

ReadElem(pos) == ElemOfBytes([k \in 0..7 |-> outFile[pos + k]])
ReadWeight(pos) == WeightOfBytes([k \in 0..7 |-> outFile[pos + k]])

FileVertexCount == ReadElem(0)
FileEdgeCount == ReadElem(SizeofGraphElem)
FileOffset(v) == ReadElem(2 * SizeofGraphElem + v * SizeofGraphElem)
FileEdge(k) ==
    LET at == 2 * SizeofGraphElem + (FileVertexCount + 1) * SizeofGraphElem
                + k * SizeofEdge
    IN [tail_ |-> ReadElem(at), weight_ |-> ReadWeight(at + SizeofGraphElem)]

\* the weight a record carries in each weight mode
RecordWeight(rec) ==
    IF wtype = ORG_WEIGHT THEN rec[4]
    ELSE IF wtype = ABS_WEIGHT THEN Abs(rec[4]) ELSE 0

\* the two directed edges of a record of shard t
DoubledRecord(t, rec) ==
    LET d == IF indexOneBased THEN 1 ELSE 0
        u == rec[1] - d + (t[1] - 1) * shardCount
        v == rec[2] - d + (t[2] - 1) * shardCount
    IN << [i_ |-> u, j_ |-> v, w_ |-> RecordWeight(rec)],
          [i_ |-> v, j_ |-> u, w_ |-> RecordWeight(rec)] >>

RECURSIVE DoubledFile(_, _, _)
DoubledFile(t, recs, k) ==
    IF k > Len(recs) THEN <<>>
    ELSE DoubledRecord(t, recs[k]) \o DoubledFile(t, recs, k + 1)

RECURSIVE DoubledOf(_)
\* the doubled edge list of the shard files in S
DoubledOf(S) ==
    IF S = {} THEN <<>>
    ELSE LET t == CHOOSE t \in S : TRUE
         IN DoubledFile(t, fs[t].records, 1) \o DoubledOf(S \ {t})

DoubledInput == DoubledOf(DOMAIN fs)

\* C3: the file read back gives, for every vertex v, at edge positions
\* [offset[v], offset[v+1]) exactly the (destination, weight) pairs of the
\* doubled input's edges with source v.
C3_RoundTrip ==
    Done =>
        /\ HasBytes(0, 2 * SizeofGraphElem)
        /\ FileVertexCount >= 0
        /\ FileEdgeCount = Len(DoubledInput)
        /\ HasBytes(2 * SizeofGraphElem, (FileVertexCount + 1) * SizeofGraphElem)
        /\ HasBytes(2 * SizeofGraphElem + (FileVertexCount + 1) * SizeofGraphElem,
                    FileEdgeCount * SizeofEdge)
        /\ \A e \in SeqRange(DoubledInput) : e.i_ >= 0 /\ e.i_ < FileVertexCount
        /\ \A v \in 0..(FileVertexCount - 1) :
              /\ 0 <= FileOffset(v)
              /\ FileOffset(v) <= FileOffset(v + 1)
              /\ FileOffset(v + 1) <= FileEdgeCount
              /\ LET slice == [k \in 1..(FileOffset(v + 1) - FileOffset(v)) |->
                                  FileEdge(FileOffset(v) + k - 1)]
                 IN \A x \in SeqRange(slice)
                           \cup {[tail_ |-> e.j_, weight_ |-> e.w_] :
                                    e \in SeqRange(DoubledInput)} :
                       CountIn(slice, LAMBDA y : y = x)
                         = CountIn(DoubledInput,
                                   LAMBDA e : e.i_ = v /\ e.j_ = x.tail_
                                              /\ e.w_ = x.weight_)

\* C4: every directed edge emitted by the redistribution reaches exactly one
\* process, the owner of its source: parts[r] <= source < parts[r+1].
C4_OwnerDelivery ==
    /\ \A r \in Ranks :
          pc[r] = "barrier267" =>
             /\ SumTo([p \in Ranks |-> Len(loc[r].outEdges[p])], nprocs)
                  = loc[r].numEdges
             /\ \A p \in Ranks : \A e \in SeqRange(loc[r].outEdges[p]) :
                   loc[r].parts[p] <= e.i_ /\ e.i_ < loc[r].parts[p + 1]
    /\ AllAt("reduce") =>
          /\ ReceivedTotal = loc[0].globalNumEdges
          /\ \A r \in Ranks : \A e \in SeqRange(loc[r].rredata) :
                loc[r].parts[r] <= e.i_ /\ e.i_ < loc[r].parts[r + 1]

Overlap(a, b) ==
    /\ a.count > 0 /\ b.count > 0
    /\ a.offset < b.offset + b.count
    /\ b.offset < a.offset + a.count

\* the first byte of the edge records of rank r: the header, the offset
\* table, and the edges of the lower ranks
EdgeStart(r) ==
    2 * SizeofGraphElem + (loc[r].globalNumVertices + 1) * SizeofGraphElem
      + SizeofEdge * SumTo([p \in Ranks |-> Len(loc[p].rredata)], r)

\* C5: writes of different processes never overlap: rank 0's header and
\* offset table lie before the edge region, and the edge writes of rank r lie
\* in [EdgeStart(r), EdgeStart(r) + bytes of r), which ends where the range of
\* rank r+1 starts.
C5_DisjointWrites ==
    /\ \A a \in writeLog : \A b \in writeLog :
          a.rank # b.rank => ~Overlap(a, b)
    /\ \A a \in writeLog :
          IF a.part = "edges"
          THEN /\ EdgeStart(a.rank) <= a.offset
               /\ a.offset + a.count
                    <= EdgeStart(a.rank) + SizeofEdge * Len(loc[a.rank].rredata)
          ELSE /\ a.rank = 0
               /\ a.offset + a.count
                    <= 2 * SizeofGraphElem
                         + (loc[0].globalNumVertices + 1) * SizeofGraphElem

C5_Witness ==
    /\ Done
    /\ \E a \in writeLog : \E b \in writeLog :
          /\ a.rank = 0 /\ b.rank = 1
          /\ a.part = "edges" /\ b.part = "edges"
          /\ a.count > 0 /\ b.count > 0
    /\ \E a \in writeLog : a.part = "edges" /\ loc[a.rank].ws.chunked

AllEndpoints ==
    UNION { {e.i_, e.j_} : e \in UNION {SeqRange(loc[p].edgeList) : p \in Ranks} }

SetMax(S) == CHOOSE x \in S : \A y \in S : y <= x

\* C6: globalVertexCount is 1 + the largest global vertex id read, so every
\* endpoint of every edge lies in [0, globalVertexCount).
C6_VertexCount ==
    (AllAt("partition") /\ AllEndpoints # {}) =>
        \A r \in Ranks :
            /\ loc[r].globalNumVertices = 1 + SetMax(AllEndpoints)
            /\ \A x \in AllEndpoints : 0 <= x /\ x < loc[r].globalNumVertices

\* the process that reads shard t, if any: the ranks whose fileProc entry is t
ReadersOf(t) ==
    {q \in Ranks : HasShard(loc[q].fileProc, q) /\ loc[q].fileProc[q + 1] = t}

\* the number of existing shards enumerated before t in row-major order
RowMajorPosition(t) ==
    Cardinality({u \in DOMAIN fs : u[1] < t[1] \/ (u[1] = t[1] /\ u[2] < t[2])})

\* C7: every shard file that exists is assigned to exactly one of the
\* nprocs processes, ranks being handed out 0, 1, 2, ... in row-major
\* enumeration order and no process owning more than one shard.
C7_ShardAssignment ==
    AllAt("open") =>
        \A t \in DOMAIN fs :
            /\ Cardinality(ReadersOf(t)) = 1
            /\ ReadersOf(t) \subseteq {RowMajorPosition(t)}

\* C7 as amended: the shard at row-major position k among the existing
\* shards is read by process k alone when k < nprocs, and by no process
\* when k >= nprocs.
C7_ShardAssignmentAmended ==
    AllAt("open") =>
        \A t \in DOMAIN fs :
            ReadersOf(t) = IF RowMajorPosition(t) < nprocs
                           THEN {RowMajorPosition(t)} ELSE {}

\* one process and two shards: the first is read, the second is not
C7_Witness ==
    /\ AllAt("open")
    /\ nprocs = 1 /\ Cardinality(DOMAIN fs) = 2
    /\ \E t \in DOMAIN fs : ReadersOf(t) = {0}
    /\ \E t \in DOMAIN fs : ReadersOf(t) = {}

Scenario1 ==
    /\ nprocs = 1 /\ ~indexOneBased /\ wtype = ORG_WEIGHT /\ shardCount = 4
    /\ fs = [t \in {<<1, 1>>} |-> FileSym]

\* C10: scenario 1 ends with globalVertexCount 2, globalEdgeCount 4 and the
\* offset table [0, 2, 4].
C10_Scenario1 ==
    (Scenario1 /\ Done) =>
        /\ loc[0].globalNumVertices = 2
        /\ loc[0].globalNumEdges = 4
        /\ loc[0].edgeCount = [v \in 0..2 |-> 2 * v]

Scenario2 ==
    /\ nprocs = 2 /\ indexOneBased /\ shardCount = 2
    /\ fs = [t \in {<<1, 1>>, <<2, 2>>} |-> IF t = <<1, 1>> THEN FileA ELSE FileB]

\* C11: in scenario 2 the vertices of the second shard (read by process 1)
\* start at global id 2, and the run has globalVertexCount 4 and
\* globalEdgeCount 4.
C11_Scenario2 ==
    (Scenario2 /\ AllAt("partition")) =>
        /\ \A e \in SeqRange(loc[1].edgeList) : e.i_ >= 2 /\ e.j_ >= 2
        /\ \E e \in SeqRange(loc[1].edgeList) : e.i_ = 2 \/ e.j_ = 2
        /\ \A r \in Ranks : /\ loc[r].globalNumVertices = 4
                            /\ loc[r].globalNumEdges = 4

\* fewer shards than processes: some process has no shard
FewerShards == Cardinality(DOMAIN fs) < nprocs

\* C13: a process without a shard contributes no edge and no vertex id, and
\* when there are fewer shards than processes every process still reaches
\* the final file close, unless the output file cannot be opened.
C13_IdleProcessesFinish ==
    /\ [](\A r \in Ranks :
            (pc[r] = "barrier185" /\ ~HasShard(loc[r].fileProc, r)) =>
                loc[r].numEdges = 0 /\ loc[r].numVertices = 0)
    /\ (FewerShards => <>(Done \/ fh = "error"))

\* C14: after the reduction the coordinator holds, for every vertex v of
\* [0, globalVertexCount), the number of directed edges with source v over
\* all processes (the count of v is kept at edgeCount[v+1]).
C14_DegreeReduction ==
    pc[0] = "prefix" =>
        \A v \in 0..(loc[0].globalNumVertices - 1) :
            loc[0].edgeCount[v + 1] = Degree(v)

\* the bytes of the header and of the whole offset table
HeaderAndTableBytes(gnv) == 2 * SizeofGraphElem + (gnv + 1) * SizeofGraphElem

\* C15: after a complete run the file holds globalVertexCount at byte 0,
\* globalEdgeCount at byte 8 and the coordinator's globalVertexCount+1 offset
\* entries from byte 16 on, all written by the coordinator, with no unwritten
\* byte before the edge records.
C15_OutputLayout ==
    Done =>
        LET gnv == loc[0].globalNumVertices
        IN /\ HasBytes(0, HeaderAndTableBytes(gnv))
           /\ \A p \in 0..(HeaderAndTableBytes(gnv) - 1) :
                 \E a \in writeLog :
                    a.rank = 0 /\ a.offset <= p /\ p < a.offset + a.count
           /\ ReadElem(0) = gnv
           /\ ReadElem(SizeofGraphElem) = loc[0].globalNumEdges
           /\ \A v \in 0..gnv : FileOffset(v) = loc[0].edgeCount[v]

\* the edges held by the processes of rank below r
HeldBelow(r) == SumTo([p \in Ranks |-> Len(loc[p].rredata)], r)

\* the bytes covered by the edge writes of rank r
EdgeBytesWritten(r) ==
    UNION { a.offset..(a.offset + a.count - 1) :
            a \in {b \in writeLog : b.rank = r /\ b.part = "edges"} }

\* C16: the edge records of process r fill one contiguous byte range that
\* starts at 16 + 8*(V+1) + 8*(edges held by the ranks below r).
C16_EdgeByteOffset ==
    Done =>
        \A r \in Ranks :
            LET start == 16 + 8 * (loc[r].globalNumVertices + 1) + 8 * HeldBelow(r)
            IN EdgeBytesWritten(r)
                 = start..(start + SizeofEdge * Len(loc[r].rredata) - 1)

\* C16 as amended: the range starts at 16 + 8*(V+1) + 16*(edges held by the
\* ranks below r), 16 being the size of one edge record.
C16_EdgeByteOffsetAmended ==
    Done =>
        \A r \in Ranks :
            EdgeBytesWritten(r)
              = EdgeStart(r)..(EdgeStart(r) + SizeofEdge * Len(loc[r].rredata) - 1)

\* a process of rank above 0 writes edges behind those of a lower rank
C16_Witness ==
    /\ Done
    /\ \E r \in Ranks : r > 0 /\ HeldBelow(r) > 0 /\ EdgeBytesWritten(r) # {}

\* the record lines of the shard that process r reads
RecordsOf(r) ==
    IF HasShard(loc[r].fileProc, r) THEN fs[loc[r].fileProc[r + 1]].records
    ELSE <<>>

\* C17: when a process has read its shard, it holds exactly one tuple per
\* record line: a final newline or an empty file adds none.
C17_OneEdgePerRecord ==
    \A r \in Ranks :
        pc[r] = "barrier185" =>
            /\ Len(loc[r].edgeList) = Len(RecordsOf(r))
            /\ loc[r].numEdges = 2 * Len(RecordsOf(r))

\* the tuple one extraction pass yields for record line rec of the shard at
\* tile t: the first two fields, and the weight of the weight mode
TupleOfRecord(t, rec) == DoubledRecord(t, rec)[1]

\* C18: the tuple pushed for a record line is (field1, field2, weight) in raw
\* mode, (field1, field2, |weight|) in absolute mode and (field1, field2, 0)
\* in unweighted mode, each after index-base and shard offset: one extraction
\* pass per line and no second read of the line.
C18_WeightModes ==
    \A r \in Ranks :
        (pc[r] \in {"read", "barrier185"} /\ HasShard(loc[r].fileProc, r)) =>
            \A k \in 1..Len(RecordsOf(r)) :
                k <= Len(loc[r].edgeList) =>
                    loc[r].edgeList[k]
                      = TupleOfRecord(loc[r].fileProc[r + 1], RecordsOf(r)[k])

\* the edge lists of the processes one after the other in rank order
EdgesInRankOrder == Concat([p \in Ranks |-> loc[p].rredata], nprocs)

\* C20: the edge index at which process r starts to write is the offset
\* table's entry of its first owned vertex, offset[parts[r]]; the edge lists
\* in rank order are sorted by source, and the edges of vertex v are the
\* ones at positions offset[v]+1 .. offset[v+1] of that sequence.
C20_StartMatchesOffset ==
    Done =>
        LET off == loc[0].edgeCount
            all == EdgesInRankOrder
        IN /\ \A r \in Ranks : loc[r].e_offset = off[loc[r].parts[r]]
           /\ \A k \in 1..(Len(all) - 1) : all[k].i_ <= all[k + 1].i_
           /\ \A v \in 0..(loc[0].globalNumVertices - 1) :
                 \A k \in 1..Len(all) :
                    (all[k].i_ = v) <=> (off[v] < k /\ k <= off[v + 1])

\* ----------------------------------------- the partition table on its own
\* the program's variables while a single function is exercised
Idle ==
    /\ nprocs = 1 /\ indexOneBased = FALSE /\ wtype = ORG_WEIGHT
    /\ shardCount = 2 /\ fileStartIndex = 1 /\ fileEndIndex = 1
    /\ fs = << >>
    /\ pc = [r \in 0..0 |-> "done"]
    /\ loc = [r \in 0..0 |-> InitLocals(1)]
    /\ fh = "closed" /\ outFile = EmptyFile /\ writeLog = {}

InitParts ==
    /\ Idle
    /\ \E gnv \in 0..MaxVertices : \E np \in 1..MaxParts :
          bt = [on |-> TRUE, gnv |-> gnv, np |-> np, computed |-> FALSE,
                parts |-> [i \in 0..np |-> 0]]

\* lines 207-211 for the drawn globalNumVertices and nprocs
ComputeParts ==
    /\ bt.on /\ ~bt.computed
    /\ bt' = [bt EXCEPT !.parts = PartsOf(bt.gnv, bt.np), !.computed = TRUE]
    /\ UNCHANGED <<inputs, pc, loc, fh, outFile, writeLog>>

SpecParts == InitParts /\ [][ComputeParts]_vars

\* C8: parts[0] = 0, parts[P] = globalVertexCount, parts is monotone, and
\* every vertex of [0, globalVertexCount) lies in exactly one interval
\* [parts[r], parts[r+1]).
C8_Boundaries ==
    bt.computed =>
        /\ bt.parts[0] = 0
        /\ bt.parts[bt.np] = bt.gnv
        /\ \A i \in 0..(bt.np - 1) : bt.parts[i] <= bt.parts[i + 1]
        /\ \A v \in 0..(bt.gnv - 1) :
              Cardinality({r \in 0..(bt.np - 1) :
                              bt.parts[r] <= v /\ v < bt.parts[r + 1]}) = 1

\* fewer vertices than processes, so some intervals are empty, and a vertex
\* count the process count does not divide
C8_Witness ==
    /\ bt.computed
    /\ bt.gnv > 0 /\ bt.gnv < bt.np
    /\ \E r \in 0..(bt.np - 1) : bt.parts[r] = bt.parts[r + 1]

\* ---------------------------------------------- the write loop on its own
\* byte p of a payload
PayloadByte(seed, p) == (7 * p + seed) % 256

\* a file that already holds bytes around the range to be written
OldFile == [p \in 0..(MaxStart + MaxPayload + MaxChunk) |-> 255]

InitChunk ==
    /\ Idle
    /\ \E tot \in 0..MaxPayload : \E max \in 1..MaxChunk : \E start \in 0..MaxStart :
       \E file0 \in {EmptyFile, OldFile} :
          bt = [on |-> TRUE, tot |-> tot, max |-> max, start |-> start,
                buf |-> [p \in 0..(tot - 1) |-> PayloadByte(start + 1, p)],
                file0 |-> file0, file |-> file0, calls |-> <<>>,
                ws |-> WriteBegin(tot, start, max)]

\* one MPI_File_write_at call of the transfer (lines 364, 372-378)
ChunkWrite ==
    /\ bt.on /\ bt.ws.active
    /\ bt' = [bt EXCEPT !.file = FileWrite(@, WriteCall(bt.ws), bt.buf),
                        !.calls = Append(@, WriteCall(bt.ws)),
                        !.ws = WriteAdvance(bt.ws, bt.max)]
    /\ UNCHANGED <<inputs, pc, loc, fh, outFile, writeLog>>

SpecChunk == InitChunk /\ [][ChunkWrite]_vars

\* C9: when the transfer has ended, the file is what one write of the whole
\* payload at the starting offset would have left.
C9_ChunkedEqualsSingle ==
    ~bt.ws.active =>
        bt.file = FileWrite(bt.file0,
                            [offset |-> bt.start, ptr |-> 0, count |-> bt.tot],
                            bt.buf)

\* a payload of exactly two full chunks, written over old contents
C9_Witness ==
    /\ ~bt.ws.active
    /\ bt.tot = 2 * bt.max /\ bt.max > 1
    /\ Len(bt.calls) = 2
    /\ bt.file0 = OldFile

\* the bytes moved by the calls made so far
BytesCalled == SumTo([k \in 0..(Len(bt.calls) - 1) |-> bt.calls[k + 1].count],
                     Len(bt.calls))

\* C19: for a payload larger than the per-call maximum, every call moves
\* more than zero and at most the maximum bytes, the first call is at the
\* starting offset and each further call where the call before it ended,
\* the calls are no more than ceil(payload / maximum); when the loop has
\* ended the last call moved the remainder and the calls together the payload.
C19_ChunkSequence ==
    bt.tot > bt.max =>
        LET n == Len(bt.calls)
        IN /\ \A k \in 1..n : bt.calls[k].count > 0 /\ bt.calls[k].count <= bt.max
           /\ n >= 1 => bt.calls[1].offset = bt.start
           /\ \A k \in 2..n :
                 /\ bt.calls[k].offset = bt.calls[k - 1].offset + bt.calls[k - 1].count
                 /\ bt.calls[k].offset > bt.calls[k - 1].offset
           /\ n <= (bt.tot + bt.max - 1) \div bt.max
           /\ bt.ws.active => BytesCalled < bt.tot
           /\ ~bt.ws.active =>
                 /\ BytesCalled = bt.tot
                 /\ bt.calls[n].count = bt.tot - bt.max * (n - 1)

\* a payload of two full chunks and a shorter last one
C19_Witness ==
    /\ ~bt.ws.active
    /\ bt.tot > 2 * bt.max /\ bt.tot < 3 * bt.max
    /\ Len(bt.calls) = 3
    /\ bt.calls[3].count < bt.max

\* ------------------------------------------------ the local sort on its own
\* the tuples a process may hold after the exchange; two of them share
\* (source, destination) and differ in weight
SortEdges == { [i_ |-> 0, j_ |-> 1, w_ |-> 3], [i_ |-> 0, j_ |-> 1, w_ |-> 6],
               [i_ |-> 1, j_ |-> 0, w_ |-> 3], [i_ |-> 0, j_ |-> 0, w_ |-> 0] }

\* the same tuples once as they arrived and once in an ecmp-sorted order
InitSort ==
    /\ Idle
    /\ \E n \in 0..MaxSortLen : \E s \in [1..n -> SortEdges] :
       \E o \in SortedArrangements(s) :
          bt = [on |-> TRUE, arrived |-> s, ordered |-> o, sorted |-> FALSE,
                fromArrived |-> <<>>, fromOrdered |-> <<>>]

\* lines 321-335 on each of the two sequences
SortBoth ==
    /\ bt.on /\ ~bt.sorted
    /\ \E a \in SortResults(bt.arrived) : \E b \in SortResults(bt.ordered) :
          bt' = [bt EXCEPT !.sorted = TRUE, !.fromArrived = a, !.fromOrdered = b]
    /\ UNCHANGED <<inputs, pc, loc, fh, outFile, writeLog>>

SpecSort == InitSort /\ [][SortBoth]_vars

\* C12: the sorter leaves the same sequence whether the tuples arrive in an
\* arbitrary order or already ordered, also when tuples share (source,
\* destination) and differ in weight.
C12_SortIdempotent ==
    bt.sorted => bt.fromArrived = bt.fromOrdered

====
